---- MODULE Spec2Model ----
(***************************************************************************)
(* Model of the oberst command engine.                                     *)
(*   flat lineage : oberst/src/lib.rs, oberst/src/parser.rs and the forms  *)
(*                  generated by oberst_proc/src/lib.rs                    *)
(*   tree lineage : src/lib.rs, src/matchers.rs, src/arguments.rs          *)
(*   second cursor parser : src/parser.rs                                  *)
(* Text is a sequence of one-character strings.  All characters used are   *)
(* ASCII, so byte offsets and character offsets coincide.                  *)
(***************************************************************************)
EXTENDS Integers, Sequences, FiniteSets, TLC

VARIABLES pc, command, parser, ty, variant, result,
          attempts, last_error, executed, context, visits,
          checkpoint, branches

vars == <<pc, command, parser, ty, variant, result,
          attempts, last_error, executed, context, visits,
          checkpoint, branches>>

(***************************************************************************)
(* Bounds of the explored inputs.                                          *)
(***************************************************************************)
MaxProbe == 300
MaxStrLen == 6
MaxPieces == 4
MaxTreePieces == 4

(***************************************************************************)
(* Text helpers.                                                           *)
(***************************************************************************)
Alphabetic == {"a", "b", "f", "h", "i", "o", "q", "r", "t", "u", "w", "x", "z"}
Digits == {"0", "1", "2", "3", "4", "5", "6", "7", "8", "9"}
Whitespace == {" "}

DigitChars == <<"0", "1", "2", "3", "4", "5", "6", "7", "8", "9">>

DigitValue(c) == CHOOSE d \in 0..9 : DigitChars[d + 1] = c

starts_with(s, prefix) ==
    /\ Len(prefix) <= Len(s)
    /\ SubSeq(s, 1, Len(prefix)) = prefix

RECURSIVE trim_start(_)
trim_start(s) ==
    IF s # <<>> /\ Head(s) \in Whitespace THEN trim_start(Tail(s)) ELSE s

\* i.to_string(): decimal text of an integer
RECURSIVE NatToStr(_)
NatToStr(n) ==
    IF n < 10 THEN <<DigitChars[n + 1]>>
    ELSE NatToStr(n \div 10) \o <<DigitChars[(n % 10) + 1]>>

ToStr(i) == IF i < 0 THEN <<"-">> \o NatToStr(-i) ELSE NatToStr(i)

(***************************************************************************)
(* CommandParser: the cursor {command, offset}.                            *)
(***************************************************************************)
new(cmd) == [command |-> cmd, offset |-> 0]

\* &self.command[self.offset..]
Rest(p) == SubSeq(p.command, p.offset + 1, Len(p.command))

NoError == [kind |-> "None", offset |-> 0]

error_at_start(p, kind) == [kind |-> kind, offset |-> 0]

error(p, kind) == [kind |-> kind, offset |-> p.offset]

advance(p, n) == [p EXCEPT !.offset = @ + n]

lit(p, l) ==
    IF starts_with(Rest(p), l)
    THEN [ok |-> TRUE, parser |-> [p EXCEPT !.offset = @ + Len(l)], err |-> NoError]
    ELSE [ok |-> FALSE, parser |-> p, err |-> error(p, "BadLiteral")]

\* read_while with a stateless predicate, given as the set of accepted characters
RECURSIVE read_from(_, _)
read_from(p, accept) ==
    IF Rest(p) # <<>> /\ Head(Rest(p)) \in accept
    THEN read_from([p EXCEPT !.offset = @ + 1], accept)
    ELSE p

read_while(p, accept) ==
    LET q == read_from(p, accept)
    IN  [parser |-> q, text |-> SubSeq(p.command, p.offset + 1, q.offset)]

end(p) ==
    IF p.offset = Len(p.command)
    THEN [ok |-> TRUE, err |-> NoError]
    ELSE [ok |-> FALSE, err |-> error(p, "ExpectedEof")]

branch(p) == [command |-> p.command, offset |-> p.offset]

(***************************************************************************)
(* Argument results: Ok(value), Err(ParseError) or a panic.                *)
(***************************************************************************)
ArgOk(v, p) == [tag |-> "Ok", value |-> v, parser |-> p, err |-> NoError]
ArgErr(e, p) == [tag |-> "Err", value |-> 0, parser |-> p, err |-> e]
ArgPanic(p) == [tag |-> "Panic", value |-> 0, parser |-> p, err |-> NoError]

\* The integer types of argument_impl_int that are explored: u8 and i8.
IntTypes == {"u8", "i8"}
Signed(t) == t = "i8"
TypeMax(t) == IF t = "u8" THEN 255 ELSE 127
TypeMin(t) == IF t = "u8" THEN 0 ELSE -128

\* num.parse::<$t>() on a non-empty run of ASCII digits: checked accumulation
RECURSIVE from_digits(_, _, _)
from_digits(digits, acc, max) ==
    IF digits = <<>> THEN [ok |-> TRUE, value |-> acc]
    ELSE LET next == acc * 10 + DigitValue(Head(digits))
         IN  IF next > max THEN [ok |-> FALSE, value |-> 0]
             ELSE from_digits(Tail(digits), next, max)

\* a sign block that advances for every signed type, whatever is at the cursor
int_sign_unconditional(t, p) ==
    IF Signed(t)
    THEN [parser |-> advance(p, 1), sign |-> -1]
    ELSE [parser |-> p, sign |-> 1]

\* the sign block of argument_impl_int
int_sign(t, p) ==
    IF Signed(t) /\ starts_with(Rest(p), <<"-">>)
    THEN [parser |-> advance(p, 1), sign |-> -1]
    ELSE [parser |-> p, sign |-> 1]

\* oberst/src/parser.rs: num.parse::<$t>().unwrap() * sign
parse_int_oberst(t, p) ==
    LET s == int_sign(t, p)
        r == read_while(s.parser, Digits)
        n == from_digits(r.text, 0, TypeMax(t))
    IN  IF r.text = <<>> THEN ArgErr(error(r.parser, "BadArgument"), r.parser)
        ELSE IF ~n.ok THEN ArgPanic(r.parser)
        ELSE ArgOk(n.value * s.sign, r.parser)

\* src/parser.rs: num.parse::<$t>().map_err(BadArgument)? * sign
parse_int_src(t, p) ==
    LET s == int_sign(t, p)
        r == read_while(s.parser, Digits)
        n == from_digits(r.text, 0, TypeMax(t))
    IN  IF r.text = <<>> THEN ArgErr(error(r.parser, "BadArgument"), r.parser)
        ELSE IF ~n.ok THEN ArgErr(error(r.parser, "BadArgument"), r.parser)
        ELSE ArgOk(n.value * s.sign, r.parser)

\* The read_while of String::parse with its closure state (escape, result).
\* oberst/src/parser.rs: only escaped characters are pushed.
RECURSIVE string_scan_oberst(_, _, _)
string_scan_oberst(p, escape, res) ==
    IF Rest(p) = <<>> THEN [parser |-> p, value |-> res]
    ELSE LET c == Head(Rest(p))
             q == [p EXCEPT !.offset = @ + 1]
         IN  IF escape THEN string_scan_oberst(q, FALSE, Append(res, c))
             ELSE IF c = "\\" THEN string_scan_oberst(q, TRUE, res)
             ELSE IF c # "\"" THEN string_scan_oberst(q, FALSE, res)
             ELSE [parser |-> p, value |-> res]

\* src/parser.rs: escaped and plain characters are pushed.
RECURSIVE string_scan_src(_, _, _)
string_scan_src(p, escape, res) ==
    IF Rest(p) = <<>> THEN [parser |-> p, value |-> res]
    ELSE LET c == Head(Rest(p))
             q == [p EXCEPT !.offset = @ + 1]
         IN  IF escape THEN string_scan_src(q, FALSE, Append(res, c))
             ELSE IF c = "\\" THEN string_scan_src(q, TRUE, res)
             ELSE IF c = "\"" THEN [parser |-> p, value |-> res]
             ELSE string_scan_src(q, FALSE, Append(res, c))

parse_String_oberst(p) ==
    LET open == lit(p, <<"\"">>)
    IN  IF ~open.ok THEN ArgErr(open.err, open.parser)
        ELSE LET s == string_scan_oberst(open.parser, FALSE, <<>>)
                 close == lit(s.parser, <<"\"">>)
             IN  IF ~close.ok THEN ArgErr(close.err, close.parser)
                 ELSE ArgOk(s.value, close.parser)

parse_String_src(p) ==
    LET open == lit(p, <<"\"">>)
    IN  IF ~open.ok THEN ArgErr(open.err, open.parser)
        ELSE LET s == string_scan_src(open.parser, FALSE, <<>>)
                 close == lit(s.parser, <<"\"">>)
             IN  IF ~close.ok THEN ArgErr(close.err, close.parser)
                 ELSE ArgOk(s.value, close.parser)

(***************************************************************************)
(* Input sets: concatenations of a few pieces.                             *)
(***************************************************************************)
RECURSIVE Concats(_, _)
Concats(pieces, n) ==
    IF n = 0 THEN {<<>>}
    ELSE LET shorter == Concats(pieces, n - 1)
         IN  shorter \cup {s \o piece : s \in shorter, piece \in pieces}

S_foo == <<"f", "o", "o">>
S_bar == <<"b", "a", "r">>
S_baz == <<"b", "a", "z">>
S_qux == <<"q", "u", "x">>
S_with == <<"w", "i", "t", "h">>

FlatNames == {S_foo, S_bar, S_qux, <<>>}
FlatPieces == {<<" ">>, S_with, <<"4", "2">>, <<"3", "0", "0">>, <<"-">>, <<"!">>, <<"\"">>, <<"a">>}
FlatInputs == {name \o rest : name \in FlatNames, rest \in Concats(FlatPieces, MaxPieces)}

TreePieces == {S_foo, S_bar, S_baz, S_qux, <<" ">>, <<"x">>, <<"\"">>}
TreeInputs == Concats(TreePieces, MaxTreePieces)

(***************************************************************************)
(* Flat lineage: forms as generated by define_command.                     *)
(***************************************************************************)
Literal(text) == [kind |-> "Literal", text |-> text, name |-> "", ty |-> ""]
Argument(name, t) == [kind |-> "Argument", text |-> <<>>, name |-> name, ty |-> t]

\* The registry: command name -> ordered forms; fails = the handler returns Err.
Registered == {S_foo, S_bar}

dispatchers(name) ==
    IF name = S_foo
    THEN << [syntax |-> <<Literal(S_with), Argument("arg", "u8")>>, fails |-> FALSE],
            [syntax |-> <<Argument("n", "i8"), Literal(<<"!">>)>>, fails |-> TRUE],
            [syntax |-> <<Argument("n", "u8")>>, fails |-> FALSE],
            [syntax |-> <<Argument("s", "String")>>, fails |-> FALSE] >>
    ELSE << [syntax |-> <<Literal(<<"!">>), Argument("n", "u8")>>, fails |-> TRUE],
            [syntax |-> <<Literal(<<"!">>)>>, fails |-> FALSE] >>

\* parser.argument::<ty>() of the flat lineage (oberst/src/parser.rs)
argument(t, p) ==
    IF t = "String" THEN parse_String_oberst(p) ELSE parse_int_oberst(t, p)

FormOk(args, p) == [tag |-> "Ok", args |-> args, parser |-> p, err |-> NoError]
FormErr(e, p) == [tag |-> "Err", args |-> <<>>, parser |-> p, err |-> e]
FormPanic(p) == [tag |-> "Panic", args |-> <<>>, parser |-> p, err |-> NoError]

\* The closure generated for one form: its elements in order, each with `?`.
RECURSIVE generate_parser(_, _, _)
generate_parser(syntax, p, args) ==
    IF syntax = <<>> THEN FormOk(args, p)
    ELSE LET e == Head(syntax)
         IN  IF e.kind = "Literal"
             THEN LET l == lit(p, e.text)
                  IN  IF l.ok THEN generate_parser(Tail(syntax), l.parser, args)
                      ELSE FormErr(l.err, l.parser)
             ELSE LET a == argument(e.ty, p)
                  IN  IF a.tag = "Ok"
                      THEN generate_parser(Tail(syntax), a.parser,
                                           Append(args, <<e.name, a.value>>))
                      ELSE IF a.tag = "Err" THEN FormErr(a.err, a.parser)
                      ELSE FormPanic(a.parser)

(***************************************************************************)
(* Dispatch results.                                                       *)
(***************************************************************************)
NoCheckpoint == [kind |-> "None", text |-> <<>>, name |-> ""]
NoResult == [tag |-> "None", kind |-> "None", offset |-> 0, text |-> <<>>]
HandlerOk == [tag |-> "Ok", kind |-> "None", offset |-> 0, text |-> <<>>]
HandlerErr == [tag |-> "Dispatch", kind |-> "None", offset |-> 0, text |-> <<>>]
Panicked == [tag |-> "Panic", kind |-> "None", offset |-> 0, text |-> <<>>]
ParseFailure(e) == [tag |-> "Parse", kind |-> e.kind, offset |-> e.offset, text |-> <<>>]
InputError(kind, text) == [tag |-> "Input", kind |-> kind, offset |-> 0, text |-> text]

(***************************************************************************)
(* State after construction: a source/dispatcher with its registry and a   *)
(* context no handler has touched.                                         *)
(***************************************************************************)
Init ==
    /\ pc = "idle"
    /\ command = <<>>
    /\ parser = new(<<>>)
    /\ ty = "none"
    /\ variant = "none"
    /\ result = NoResult
    /\ attempts = <<>>
    /\ last_error = NoError
    /\ executed = <<>>
    /\ context = 0
    /\ visits = <<>>
    /\ checkpoint = NoCheckpoint
    /\ branches = <<>>

\* the name read by dispatch and the forms it resolved
CommandName == SubSeq(command, 1, parser.offset)
Forms == dispatchers(CommandName)

(***************************************************************************)
(* CommandSource::dispatch, lines 80-85: read the name, look it up.        *)
(***************************************************************************)
Dispatch ==
    /\ pc = "idle"
    /\ \E input \in FlatInputs :
         LET name == read_while(new(input), Alphabetic)
         IN  /\ command' = input
             /\ parser' = name.parser
             /\ variant' = "flat"
             /\ IF name.text \in Registered
                THEN /\ pc' = "forms"
                     /\ result' = result
                ELSE /\ pc' = "done"
                     /\ result' = ParseFailure(error(name.parser, "UnknownCommand"))
    /\ UNCHANGED <<ty, attempts, last_error, executed, context, visits>>
    /\ UNCHANGED <<checkpoint, branches>>

\* A for loop that goes on to the next form when the handler returned an error.
TryFormAnyResult ==
    /\ pc = "forms"
    /\ Len(attempts) < Len(Forms)
    /\ LET i == Len(attempts) + 1
           b == branch(parser)
           out == generate_parser(Forms[i].syntax, b, <<>>)
       IN  /\ attempts' = Append(attempts,
                 [form |-> i, start |-> b.offset, stop |-> out.parser.offset,
                  outcome |-> out.tag, err |-> out.err])
           /\ IF out.tag = "Ok"
              THEN /\ executed' = Append(executed, [handler |-> i, args |-> out.args])
                   /\ context' = context + 1
                   /\ IF Forms[i].fails
                      THEN /\ last_error' = [kind |-> "Handler", offset |-> 0]
                           /\ result' = result
                           /\ pc' = pc
                      ELSE /\ last_error' = last_error
                           /\ result' = HandlerOk
                           /\ pc' = "done"
              ELSE IF out.tag = "Err"
              THEN /\ last_error' = out.err
                   /\ UNCHANGED <<executed, context, result, pc>>
              ELSE /\ result' = Panicked
                   /\ pc' = "done"
                   /\ UNCHANGED <<executed, context, last_error>>
    /\ UNCHANGED <<command, parser, ty, variant, visits>>
    /\ UNCHANGED <<checkpoint, branches>>

\* A loop body that parses on the cursor itself instead of a branch of it.
TryFormNoBranch ==
    /\ pc = "forms"
    /\ Len(attempts) < Len(Forms)
    /\ LET i == Len(attempts) + 1
           out == generate_parser(Forms[i].syntax, parser, <<>>)
       IN  /\ attempts' = Append(attempts,
                 [form |-> i, start |-> parser.offset, stop |-> out.parser.offset,
                  outcome |-> out.tag, err |-> out.err])
           /\ parser' = out.parser
           /\ IF out.tag = "Ok"
              THEN /\ executed' = Append(executed, [handler |-> i, args |-> out.args])
                   /\ context' = context + 1
                   /\ result' = IF Forms[i].fails THEN HandlerErr ELSE HandlerOk
                   /\ pc' = "done"
                   /\ UNCHANGED last_error
              ELSE IF out.tag = "Err"
              THEN /\ last_error' = out.err
                   /\ UNCHANGED <<executed, context, result, pc>>
              ELSE /\ result' = Panicked
                   /\ pc' = "done"
                   /\ UNCHANGED <<executed, context, last_error>>
    /\ UNCHANGED <<command, ty, variant, visits>>
    /\ UNCHANGED <<checkpoint, branches>>

\* One iteration of the for loop, lines 89-99.
TryForm ==
    /\ pc = "forms"
    /\ Len(attempts) < Len(Forms)
    /\ LET i == Len(attempts) + 1
           b == branch(parser)
           out == generate_parser(Forms[i].syntax, b, <<>>)
       IN  /\ attempts' = Append(attempts,
                 [form |-> i, start |-> b.offset, stop |-> out.parser.offset,
                  outcome |-> out.tag, err |-> out.err])
           /\ IF out.tag = "Ok"
              THEN /\ executed' = Append(executed, [handler |-> i, args |-> out.args])
                   /\ context' = context + 1
                   /\ result' = IF Forms[i].fails THEN HandlerErr ELSE HandlerOk
                   /\ pc' = "done"
                   /\ UNCHANGED last_error
              ELSE IF out.tag = "Err"
              THEN /\ last_error' = out.err
                   /\ UNCHANGED <<executed, context, result, pc>>
              ELSE /\ result' = Panicked
                   /\ pc' = "done"
                   /\ UNCHANGED <<executed, context, last_error>>
    /\ UNCHANGED <<command, parser, ty, variant, visits>>
    /\ UNCHANGED <<checkpoint, branches>>

\* A dispatch that reports the error of the first form instead of the last.
ExhaustedFirstError ==
    /\ pc = "forms"
    /\ Len(attempts) = Len(Forms)
    /\ result' = ParseFailure(attempts[1].err)
    /\ pc' = "done"
    /\ UNCHANGED <<command, parser, ty, variant, attempts, last_error, executed,
                   context, visits>>
    /\ UNCHANGED <<checkpoint, branches>>

\* After the loop, lines 101-103: every form failed.
Exhausted ==
    /\ pc = "forms"
    /\ Len(attempts) = Len(Forms)
    /\ result' = ParseFailure(last_error)
    /\ pc' = "done"
    /\ UNCHANGED <<command, parser, ty, variant, attempts, last_error, executed,
                   context, visits>>
    /\ UNCHANGED <<checkpoint, branches>>

(***************************************************************************)
(* Tree lineage: Checkpoint, CommandNode, Dispatcher.                      *)
(***************************************************************************)
MatchOk(n, args) == [tag |-> "Ok", advance |-> n, kind |-> "None", text |-> <<>>, args |-> args]
MatchErr(kind, text) == [tag |-> "Err", advance |-> 0, kind |-> kind, text |-> text, args |-> <<>>]
MatchPanic == [tag |-> "Panic", advance |-> 0, kind |-> "None", text |-> <<>>, args |-> <<>>]

\* str::find(c): 0-based index of the first c, or -1 for None
RECURSIVE find_from(_, _, _)
find_from(s, c, i) ==
    IF i > Len(s) THEN -1
    ELSE IF s[i] = c THEN i - 1
    ELSE find_from(s, c, i + 1)

find(s, c) == find_from(s, c, 1)

\* matchers.rs, impl Argument for String: Ok((advance, value)), the value in
\* the args field; the slice input[1..end] panics when end = 0
String_apply(input) ==
    IF starts_with(input, <<"\"">>)
    THEN LET e == find(Tail(input), "\"")
         IN  IF e = -1 THEN MatchErr("EndOfInput", <<>>)
             ELSE IF e < 1 THEN MatchPanic
             ELSE MatchOk(e + 2, SubSeq(input, 2, e))
    ELSE LET sp == find(input, " ")
             e == IF sp = -1 THEN Len(input) ELSE sp
         IN  MatchOk(e, SubSeq(input, 1, e))

WildcardCp == [kind |-> "Wildcard", text |-> <<>>, name |-> ""]
LiteralCp(text) == [kind |-> "Literal", text |-> text, name |-> ""]
ArgumentCp(name) == [kind |-> "Argument", text |-> <<>>, name |-> name]

\* Checkpoint::apply; args is the CommandArgs after the call.  The slice
\* &input[..lit.len()] panics when the input is shorter than the literal.
apply(cp, input) ==
    IF cp.kind = "Literal"
    THEN IF Len(input) = 0 THEN MatchErr("EndOfInput", <<>>)
         ELSE IF starts_with(input, cp.text) THEN MatchOk(Len(cp.text), <<>>)
         ELSE IF Len(cp.text) > Len(input) THEN MatchPanic
         ELSE MatchErr("InvalidInput", SubSeq(input, 1, Len(cp.text)))
    ELSE IF cp.kind = "Argument"
    THEN LET v == String_apply(input)
         IN  IF v.tag = "Ok" THEN MatchOk(v.advance, <<<<cp.name, v.args>>>>)
             ELSE v
    ELSE MatchOk(0, <<>>)

\* The registered tree.  executes = 0 is None; node 0 is CommandNode::root().
Root == 0

Tree ==
    [n \in 0..9 |->
       CASE n = 0 -> [checkpoint |-> WildcardCp, children |-> <<1, 4, 6>>, executes |-> 0]
         [] n = 1 -> [checkpoint |-> LiteralCp(S_foo), children |-> <<2, 3>>, executes |-> 0]
         [] n = 2 -> [checkpoint |-> LiteralCp(S_bar), children |-> <<>>, executes |-> 1]
         [] n = 3 -> [checkpoint |-> LiteralCp(S_baz), children |-> <<>>, executes |-> 2]
         [] n = 4 -> [checkpoint |-> LiteralCp(S_qux), children |-> <<5>>, executes |-> 3]
         [] n = 5 -> [checkpoint |-> ArgumentCp("name"), children |-> <<9>>, executes |-> 4]
         [] n = 6 -> [checkpoint |-> LiteralCp(S_foo), children |-> <<7, 8>>, executes |-> 0]
         [] n = 7 -> [checkpoint |-> LiteralCp(S_bar), children |-> <<>>, executes |-> 5]
         [] n = 8 -> [checkpoint |-> LiteralCp(S_qux), children |-> <<>>, executes |-> 6]
         [] n = 9 -> [checkpoint |-> LiteralCp(S_bar), children |-> <<>>, executes |-> 7]]

ExecOk(runs, seen) == [tag |-> "Ok", kind |-> "None", text |-> <<>>, runs |-> runs, visits |-> seen]
ExecErr(kind, text, seen) == [tag |-> "Err", kind |-> kind, text |-> text, runs |-> <<>>, visits |-> seen]
ExecPanic(seen) == [tag |-> "Panic", kind |-> "None", text |-> <<>>, runs |-> <<>>, visits |-> seen]

RECURSIVE execute(_, _)
RECURSIVE try_children(_, _, _)

\* A loop that commits to the first child whose own checkpoint matched.
try_children_committed(children, cmd, seen) ==
    IF children = <<>> THEN ExecErr("InvalidInput", cmd, seen)
    ELSE LET r == execute(Head(children), cmd)
             matched == apply(Tree[Head(children)].checkpoint, cmd).tag = "Ok"
         IN  IF r.tag = "Ok" THEN ExecOk(r.runs, seen \o r.visits)
             ELSE IF r.tag = "Panic" THEN ExecPanic(seen \o r.visits)
             ELSE IF matched THEN ExecErr(r.kind, r.text, seen \o r.visits)
             ELSE try_children(Tail(children), cmd, seen \o r.visits)

\* the for loop of CommandNode::execute, lines 78-84
try_children(children, cmd, seen) ==
    IF children = <<>> THEN ExecErr("InvalidInput", cmd, seen)
    ELSE LET r == execute(Head(children), cmd)
         IN  IF r.tag = "Ok" THEN ExecOk(r.runs, seen \o r.visits)
             ELSE IF r.tag = "Panic" THEN ExecPanic(seen \o r.visits)
             ELSE try_children(Tail(children), cmd, seen \o r.visits)

\* An execute that runs the handler of every matched node on the way down.
execute_every_node(n, cmd) ==
    LET node == Tree[n]
        a == apply(node.checkpoint, cmd)
    IN  IF a.tag = "Err" THEN ExecErr(a.kind, a.text, <<n>>)
        ELSE IF a.tag = "Panic" THEN ExecPanic(<<n>>)
        ELSE LET rest == trim_start(SubSeq(cmd, a.advance + 1, Len(cmd)))
                 own == IF node.executes = 0 THEN <<>>
                        ELSE <<[handler |-> node.executes, args |-> a.args]>>
             IN  IF rest = <<>>
                 THEN IF node.executes = 0 THEN ExecErr("EndOfInput", <<>>, <<n>>)
                      ELSE ExecOk(own, <<n>>)
                 ELSE LET r == try_children(node.children, rest, <<n>>)
                      IN  [r EXCEPT !.runs = own \o @]

\* CommandNode::execute
execute(n, cmd) ==
    LET node == Tree[n]
        a == apply(node.checkpoint, cmd)
    IN  IF a.tag = "Err" THEN ExecErr(a.kind, a.text, <<n>>)
        ELSE IF a.tag = "Panic" THEN ExecPanic(<<n>>)
        ELSE LET rest == trim_start(SubSeq(cmd, a.advance + 1, Len(cmd)))
             IN  IF rest = <<>>
                 THEN IF node.executes = 0 THEN ExecErr("EndOfInput", <<>>, <<n>>)
                      ELSE ExecOk(<<[handler |-> node.executes, args |-> a.args]>>, <<n>>)
                 ELSE try_children(node.children, rest, <<n>>)

\* Dispatcher::dispatch
TreeDispatch ==
    /\ pc = "idle"
    /\ \E input \in TreeInputs :
         LET r == execute(Root, trim_start(input))
         IN  /\ command' = input
             /\ variant' = "tree"
             /\ visits' = r.visits
             /\ executed' = executed \o r.runs
             /\ context' = context + Len(r.runs)
             /\ result' = IF r.tag = "Ok" THEN HandlerOk
                          ELSE IF r.tag = "Panic" THEN Panicked
                          ELSE InputError(r.kind, r.text)
             /\ pc' = "done"
    /\ UNCHANGED <<parser, ty, attempts, last_error>>
    /\ UNCHANGED <<checkpoint, branches>>

Next == Dispatch \/ TryForm \/ Exhausted \/ TreeDispatch

Spec == Init /\ [][Next]_vars

(***************************************************************************)
(* Argument parsers applied on their own: integers.                        *)
(***************************************************************************)
IntPrefixes == {<<>>, <<"f">>}
IntSuffixes == {<<>>, <<" ">>, <<"x">>}
IntOddities == {<<>>, <<"-">>, <<"-", "-", "1">>, <<"0", "0", "7">>, <<"-", "0">>, <<"x">>,
                <<"0", "0", "2", "5", "6">>}
IntTexts == {ToStr(i) : i \in (0 - MaxProbe)..MaxProbe} \cup IntOddities

InitInt ==
    /\ pc = "ready"
    /\ \E pre \in IntPrefixes, txt \in IntTexts, suf \in IntSuffixes :
         /\ command = pre \o txt \o suf
         /\ parser = [command |-> pre \o txt \o suf, offset |-> Len(pre)]
    /\ ty \in IntTypes
    /\ variant = "none"
    /\ result = ArgErr(NoError, new(<<>>))
    /\ attempts = <<>>
    /\ last_error = NoError
    /\ executed = <<>>
    /\ context = 0
    /\ visits = <<>>
    /\ checkpoint = NoCheckpoint
    /\ branches = <<>>

ParseIntOberst ==
    /\ pc = "ready"
    /\ variant' = "oberst"
    /\ result' = parse_int_oberst(ty, parser)
    /\ pc' = "done"
    /\ UNCHANGED <<command, parser, ty, attempts, last_error, executed, context, visits>>
    /\ UNCHANGED <<checkpoint, branches>>

ParseIntSrc ==
    /\ pc = "ready"
    /\ variant' = "src"
    /\ result' = parse_int_src(ty, parser)
    /\ pc' = "done"
    /\ UNCHANGED <<command, parser, ty, attempts, last_error, executed, context, visits>>
    /\ UNCHANGED <<checkpoint, branches>>

NextInt == ParseIntOberst \/ ParseIntSrc

SpecInt == InitInt /\ [][NextInt]_vars

(***************************************************************************)
(* Argument parsers applied on their own: quoted strings.                  *)
(***************************************************************************)
StrAlphabet == {<<"a">>, <<"b">>, <<"\"">>, <<"\\">>}
StrInputs == Concats(StrAlphabet, MaxStrLen)

InitStr ==
    /\ pc = "ready"
    /\ command \in StrInputs
    /\ parser = new(command)
    /\ ty = "String"
    /\ variant = "none"
    /\ result = ArgErr(NoError, new(<<>>))
    /\ attempts = <<>>
    /\ last_error = NoError
    /\ executed = <<>>
    /\ context = 0
    /\ visits = <<>>
    /\ checkpoint = NoCheckpoint
    /\ branches = <<>>

ParseStringOberst ==
    /\ pc = "ready"
    /\ variant' = "oberst"
    /\ result' = parse_String_oberst(parser)
    /\ pc' = "done"
    /\ UNCHANGED <<command, parser, ty, attempts, last_error, executed, context, visits>>
    /\ UNCHANGED <<checkpoint, branches>>

ParseStringSrc ==
    /\ pc = "ready"
    /\ variant' = "src"
    /\ result' = parse_String_src(parser)
    /\ pc' = "done"
    /\ UNCHANGED <<command, parser, ty, attempts, last_error, executed, context, visits>>
    /\ UNCHANGED <<checkpoint, branches>>

NextStr == ParseStringOberst \/ ParseStringSrc

SpecStr == InitStr /\ [][NextStr]_vars

(***************************************************************************)
(* The cursor of src/parser.rs driven directly: any sequence of its        *)
(* operations and argument parsers, on the cursor or on a branch of it,    *)
(* and the rendering of the error an operation returned.                   *)
(***************************************************************************)
MaxCursorPieces == 1
MaxBranches == 1
SnippetRadius == 10

CursorPieces == {S_foo \o <<" ">> \o S_with \o <<" ", "4", "2", " ">>, <<"-">>,
                 <<"4", ".", "2", ".">>,
                 <<"\"", "a", "\"">>}
CursorInputs == Concats(CursorPieces, MaxCursorPieces)
CursorLits == {S_foo, <<"-">>, <<".">>}
CharClasses == {Alphabetic, Digits, Whitespace}

\* spacing(): one or more whitespace characters
spacing(p) ==
    LET r == read_while(p, Whitespace)
    IN  IF r.text = <<>>
        THEN [ok |-> FALSE, parser |-> r.parser, err |-> error(r.parser, "ExpectedWhitespace")]
        ELSE [ok |-> TRUE, parser |-> r.parser, err |-> NoError]

\* the read_while of argument_impl_float with its closure state (decimals)
RECURSIVE float_scan(_, _)
float_scan(p, decimals) ==
    IF Rest(p) = <<>> THEN p
    ELSE LET c == Head(Rest(p))
             q == [p EXCEPT !.offset = @ + 1]
         IN  IF c = "." THEN (IF decimals THEN p ELSE float_scan(q, TRUE))
             ELSE IF c \in Digits THEN float_scan(q, decimals)
             ELSE p

\* argument_impl_float of src/parser.rs; the value is kept as sign and text,
\* num.parse::<f64>() rejecting a text without any digit
parse_float_src(p) ==
    LET neg == starts_with(Rest(p), <<"-">>)
        p1 == IF neg THEN advance(p, 1) ELSE p
        q == float_scan(p1, FALSE)
        num == SubSeq(p.command, p1.offset + 1, q.offset)
    IN  IF num = <<>> THEN ArgErr(error(q, "BadArgument"), q)
        ELSE IF \A k \in 1..Len(num) : num[k] \notin Digits
        THEN ArgErr(error(q, "BadArgument"), q)
        ELSE ArgOk(<<IF neg THEN "-" ELSE "+", num>>, q)

saturating_sub(a, b) == IF a > b THEN a - b ELSE 0

\* impl Display for ParseError: the slice &self.command[start..end] is taken
\* before the kind is looked at and panics when end is past the text
fmt(e, cmd) ==
    LET start == saturating_sub(e.offset, SnippetRadius)
        stop == e.offset + SnippetRadius
    IN  IF stop > Len(cmd)
        THEN [tag |-> "Panic", start |-> start, stop |-> stop, text |-> <<>>]
        ELSE [tag |-> "Rendered", start |-> start, stop |-> stop,
              text |-> SubSeq(cmd, start + 1, stop)]

NotRendered == [tag |-> "None", start |-> 0, stop |-> 0, text |-> <<>>]

InitCursor ==
    /\ pc = "cursor"
    /\ command \in CursorInputs
    /\ parser = new(command)
    /\ branches = <<>>
    /\ ty = "none"
    /\ variant = "src"
    /\ result = NotRendered
    /\ attempts = <<>>
    /\ last_error = NoError
    /\ executed = <<>>
    /\ context = 0
    /\ visits = <<>>
    /\ checkpoint = NoCheckpoint

\* cursor 0 is the one made by new, cursor k > 0 is branches[k]
CursorIds == 0..Len(branches)
CursorAt(c) == IF c = 0 THEN parser ELSE branches[c]

\* an operation left cursor c as q and returned e (NoError for Ok)
CursorStep(c, q, e) ==
    /\ parser' = IF c = 0 THEN q ELSE parser
    /\ branches' = IF c = 0 THEN branches ELSE [branches EXCEPT ![c] = q]
    /\ last_error' = e
    /\ result' = NotRendered
    /\ UNCHANGED <<pc, command, ty, variant, attempts, executed, context, visits, checkpoint>>

CursorLit ==
    /\ pc = "cursor"
    /\ \E c \in CursorIds, l \in CursorLits :
         LET r == lit(CursorAt(c), l) IN CursorStep(c, r.parser, r.err)

CursorReadWhile ==
    /\ pc = "cursor"
    /\ \E c \in CursorIds, class \in CharClasses :
         CursorStep(c, read_while(CursorAt(c), class).parser, NoError)

CursorSpacing ==
    /\ pc = "cursor"
    /\ \E c \in CursorIds :
         LET r == spacing(CursorAt(c)) IN CursorStep(c, r.parser, r.err)

CursorEnd ==
    /\ pc = "cursor"
    /\ \E c \in CursorIds : CursorStep(c, CursorAt(c), end(CursorAt(c)).err)

CursorBranch ==
    /\ pc = "cursor"
    /\ Len(branches) < MaxBranches
    /\ \E c \in CursorIds : branches' = Append(branches, branch(CursorAt(c)))
    /\ last_error' = NoError
    /\ result' = NotRendered
    /\ UNCHANGED <<pc, command, parser, ty, variant, attempts, executed, context, visits,
                   checkpoint>>

CursorArgInt ==
    /\ pc = "cursor"
    /\ \E c \in CursorIds, t \in IntTypes :
         LET r == parse_int_src(t, CursorAt(c)) IN CursorStep(c, r.parser, r.err)

CursorArgFloat ==
    /\ pc = "cursor"
    /\ \E c \in CursorIds :
         LET r == parse_float_src(CursorAt(c)) IN CursorStep(c, r.parser, r.err)

CursorArgString ==
    /\ pc = "cursor"
    /\ \E c \in CursorIds :
         LET r == parse_String_src(CursorAt(c)) IN CursorStep(c, r.parser, r.err)

\* format!("{}", error) on the error the last operation returned
Render ==
    /\ pc = "cursor"
    /\ last_error # NoError
    /\ result = NotRendered
    /\ result' = fmt(last_error, command)
    /\ UNCHANGED <<pc, command, parser, ty, variant, attempts, last_error, executed,
                   context, visits, checkpoint, branches>>

NextCursor ==
    \/ CursorLit \/ CursorReadWhile \/ CursorSpacing \/ CursorEnd \/ CursorBranch
    \/ CursorArgInt \/ CursorArgFloat \/ CursorArgString \/ Render

SpecCursor == InitCursor /\ [][NextCursor]_vars

(***************************************************************************)
(* Checkpoints applied on their own.                                       *)
(***************************************************************************)
MaxMatchLen == 4

MatchPieces == {<<"f">>, <<"o">>, <<"b">>, <<" ">>, <<"\"">>}
MatchInputs == Concats(MatchPieces, MaxMatchLen)
Checkpoints == {LiteralCp(S_foo), LiteralCp(<<"b">>), ArgumentCp("name"), WildcardCp}

InitMatch ==
    /\ pc = "ready"
    /\ command \in MatchInputs
    /\ checkpoint \in Checkpoints
    /\ parser = new(<<>>)
    /\ ty = "none"
    /\ variant = "none"
    /\ result = MatchErr("None", <<>>)
    /\ attempts = <<>>
    /\ last_error = NoError
    /\ executed = <<>>
    /\ context = 0
    /\ visits = <<>>
    /\ branches = <<>>

\* Checkpoint::apply(input, &mut args)
ApplyCheckpoint ==
    /\ pc = "ready"
    /\ result' = apply(checkpoint, command)
    /\ pc' = "done"
    /\ UNCHANGED <<command, parser, ty, variant, attempts, last_error, executed,
                   context, visits, checkpoint, branches>>

NextMatch == ApplyCheckpoint

SpecMatch == InitMatch /\ [][NextMatch]_vars

(***************************************************************************)
(* Properties of flat-form dispatch.                                       *)
(***************************************************************************)
Flat == variant = "flat"
TreeRun == variant = "tree"

\* what the generated parser of form i does on a branch taken after the name
Attempt(i) == generate_parser(Forms[i].syntax, branch(parser), <<>>)

HandlerResult(i) == IF Forms[i].fails THEN HandlerErr ELSE HandlerOk

\* C1: the forms are attempted in registration order; every attempt before
\* the last one failed, so nothing is attempted after a form parsed; the one
\* handler executed is that of the first form whose parser succeeds, and the
\* dispatch result is what that handler returned, an error included.
C1_FirstParsedFormRuns ==
    (Flat /\ pc \in {"forms", "done"}) =>
        /\ \A k \in 1..Len(attempts) : attempts[k].form = k
        /\ \A k \in 1..(Len(attempts) - 1) : attempts[k].outcome = "Err"
        /\ executed # <<>> =>
             /\ pc = "done"
             /\ Len(executed) = 1
             /\ executed[1].handler = Len(attempts)
             /\ result = HandlerResult(executed[1].handler)
        /\ \A i \in 1..Len(Forms) :
             ( /\ pc = "done"
               /\ CommandName \in Registered
               /\ Attempt(i).tag = "Ok"
               /\ \A j \in 1..(i - 1) : Attempt(j).tag = "Err" )
             => ( /\ Len(executed) = 1
                  /\ executed[1].handler = i
                  /\ Len(attempts) = i )

\* C1 witness: the second form parsed and its handler failed, the third form
\* would have parsed too and was not attempted.
C1_Witness ==
    /\ Flat /\ pc = "done"
    /\ result = HandlerErr
    /\ Len(attempts) = 2
    /\ Len(Forms) >= 3
    /\ Attempt(3).tag = "Ok"

\* C2: in both lineages a dispatch call executes 0 or 1 handlers: 1 exactly
\* when it returns a handler result, and 0 with the context untouched when
\* it returns a parse or input error (or has not returned yet).
C2_AtMostOneHandler ==
    /\ Len(executed) <= 1
    /\ context = Len(executed)
    /\ pc = "done" => (result.tag \in {"Ok", "Dispatch"} <=> Len(executed) = 1)
    /\ result.tag \in {"Parse", "Input"} => (executed = <<>> /\ context = 0)
    /\ pc # "done" => (executed = <<>> /\ context = 0)

\* C2 witness: a tree dispatch that matched qux and its argument child, both
\* with handlers, and still failed on the rest of the line.
C2_Witness ==
    /\ TreeRun /\ pc = "done"
    /\ result.tag = "Input"
    /\ \E k \in 1..Len(visits) : visits[k] = 5
    /\ executed = <<>>

\* C3: when the name is registered and every form fails to parse, the
\* result is the parse error (kind and offset) of the last form.
C3_LastErrorReturned ==
    ( /\ Flat /\ pc = "done"
      /\ CommandName \in Registered
      /\ \A i \in 1..Len(Forms) : Attempt(i).tag = "Err" )
    => result = ParseFailure(Attempt(Len(Forms)).err)

\* C3 witness: all four forms of foo failed and the first and the last error
\* differ.
C3_Witness ==
    /\ Flat /\ pc = "done"
    /\ result.tag = "Parse"
    /\ Len(attempts) = 4
    /\ attempts[1].err # attempts[4].err
    /\ attempts[2].err # attempts[4].err

\* the leading alphabetic run of a line
LeadingRun(s) ==
    LET k == CHOOSE n \in 0..Len(s) :
                 /\ \A j \in 1..n : s[j] \in Alphabetic
                 /\ (n < Len(s) => s[n + 1] \notin Alphabetic)
    IN  SubSeq(s, 1, k)

\* C4 as stated: an unregistered leading name gives UnknownCommand at offset
\* 0, no form is attempted and no handler runs.
C4_UnknownCommandAtZero ==
    (Flat /\ pc = "done" /\ LeadingRun(command) \notin Registered) =>
        /\ result = ParseFailure([kind |-> "UnknownCommand", offset |-> 0])
        /\ attempts = <<>>
        /\ executed = <<>>

\* C4 amended: an unregistered leading name gives UnknownCommand at the end
\* of the leading alphabetic run, no form is attempted and no handler runs.
C4_UnknownCommandAfterName ==
    (Flat /\ pc = "done" /\ LeadingRun(command) \notin Registered) =>
        /\ result = ParseFailure([kind |-> "UnknownCommand",
                                  offset |-> Len(LeadingRun(command))])
        /\ attempts = <<>>
        /\ executed = <<>>

\* C4 witness: dispatch("qux") has returned UnknownCommand at offset 3.
C4_Witness ==
    /\ Flat /\ pc = "done"
    /\ command = S_qux
    /\ result.kind = "UnknownCommand"
    /\ result.offset = 3

\* a valid value for an argument slot, as text and as value
SlotText(t) == IF t = "String" THEN <<"\"", "a", "\"">> ELSE <<"4", "2">>
SlotValue(t) == IF t = "String" THEN <<"a">> ELSE 42

RECURSIVE UsageTail(_)
UsageTail(syntax) ==
    IF syntax = <<>> THEN <<>>
    ELSE <<" ">> \o (IF Head(syntax).kind = "Literal" THEN Head(syntax).text
                     ELSE SlotText(Head(syntax).ty))
         \o UsageTail(Tail(syntax))

RECURSIVE UsageArgs(_)
UsageArgs(syntax) ==
    IF syntax = <<>> THEN <<>>
    ELSE (IF Head(syntax).kind = "Literal" THEN <<>>
          ELSE <<<<Head(syntax).name, SlotValue(Head(syntax).ty)>>>>)
         \o UsageArgs(Tail(syntax))

HasLiteralAndSlot(syntax) ==
    /\ \E k \in 1..Len(syntax) : syntax[k].kind = "Literal"
    /\ \E k \in 1..Len(syntax) : syntax[k].kind = "Argument"

\* C5: the line "name element element ..." of a form made of literals and
\* argument slots, the slots filled with valid values, dispatches to that
\* form's handler with the parsed values ("foo with 42" gives arg = 42).
C5_UsageLineDispatches ==
    \A name \in Registered : \A i \in 1..Len(dispatchers(name)) :
        ( /\ Flat /\ pc = "done"
          /\ HasLiteralAndSlot(dispatchers(name)[i].syntax)
          /\ command = name \o UsageTail(dispatchers(name)[i].syntax) )
        => ( /\ result.tag \in {"Ok", "Dispatch"}
             /\ executed = <<[handler |-> i,
                              args |-> UsageArgs(dispatchers(name)[i].syntax)]>> )

\* C6: a form is executed only when its parser consumed the whole line.
C6_WholeLineConsumed ==
    Flat => \A k \in 1..Len(attempts) :
                attempts[k].outcome = "Ok" => attempts[k].stop = Len(command)

RECURSIVE SlotNames(_)
SlotNames(syntax) ==
    IF syntax = <<>> THEN <<>>
    ELSE (IF Head(syntax).kind = "Argument" THEN <<Head(syntax).name>> ELSE <<>>)
         \o SlotNames(Tail(syntax))

\* C15: parsing on a branch leaves the cursor of dispatch where it was: the
\* cursor stays just after the command name, every form attempt starts
\* there, however much an earlier failed form consumed, and the values
\* handed to a handler are those of its own form only.
C15_AttemptsStartAfterName ==
    (Flat /\ pc \in {"forms", "done"}) =>
        /\ parser.offset = Len(LeadingRun(command))
        /\ \A k \in 1..Len(attempts) : attempts[k].start = Len(LeadingRun(command))
        /\ \A k \in 1..Len(executed) :
             [j \in 1..Len(executed[k].args) |-> executed[k].args[j][1]]
                 = SlotNames(dispatchers(LeadingRun(command))[executed[k].handler].syntax)

\* C15 witness: an earlier form failed after consuming input, and a later
\* form then parsed and ran with a value.
C15_Witness ==
    /\ Flat /\ pc = "done"
    /\ Len(executed) = 1
    /\ executed[1].args # <<>>
    /\ \E k \in 1..(Len(attempts) - 1) :
           attempts[k].outcome = "Err" /\ attempts[k].stop > attempts[k].start

(***************************************************************************)
(* Properties of the tree dispatch.                                        *)
(***************************************************************************)
S_foo_bar == S_foo \o <<" ">> \o S_bar
S_foo_baz == S_foo \o <<" ">> \o S_baz

\* C10: a line that ends at a node without handler fails with EndOfInput:
\* "foo bar" and "foo baz" succeed, "foo" returns EndOfInput.
C10_EndOfInputAtBareNode ==
    (TreeRun /\ pc = "done") =>
        /\ command \in {S_foo_bar, S_foo_baz} => result = HandlerOk
        /\ trim_start(command) = <<>> => result = InputError("EndOfInput", <<>>)
        /\ command = S_foo => result = InputError("EndOfInput", <<>>)

Suffixes(s) == {SubSeq(s, i, Len(s)) : i \in 1..(Len(s) + 1)}

PositionIn(seq, x) == CHOOSE k \in 1..Len(seq) : seq[k] = x
Visited(n) == \E k \in 1..Len(visits) : visits[k] = n

\* the remainder a node hands to its children
Remainder(n, r) ==
    trim_start(SubSeq(r, apply(Tree[n].checkpoint, r).advance + 1, Len(r)))

NodeOf(h) == CHOOSE n \in DOMAIN Tree : Tree[n].executes = h

ParentOf(n) ==
    CHOOSE m \in DOMAIN Tree : \E k \in 1..Len(Tree[m].children) : Tree[m].children[k] = n

RECURSIVE PathTo(_)
PathTo(n) == IF n = Root THEN {Root} ELSE PathTo(ParentOf(n)) \cup {n}

SlotsOnPath(n) ==
    {Tree[m].checkpoint.name : m \in {x \in PathTo(n) : Tree[x].checkpoint.kind = "Argument"}}

StoreKeys(args) == {args[k][1] : k \in 1..Len(args)}

\* C12: the Argument Store handed to a handler holds a value for every
\* argument slot on the path from the root to the handler's node.
C12_StoreHoldsPathArguments ==
    TreeRun => \A k \in 1..Len(executed) :
                   SlotsOnPath(NodeOf(executed[k].handler)) \subseteq StoreKeys(executed[k].args)

(***************************************************************************)
(* Properties of the integer arguments (SpecInt).                          *)
(***************************************************************************)
\* the text at the cursor is the decimal text of i, followed by no digit
TextOf(i) ==
    \E suf \in IntSuffixes : Rest(parser) = ToStr(i) \o suf

\* C7: the decimal text of every i in the range of the type, the minimum of
\* a signed type included, parses to i and leaves the cursor past the token.
C7_IntegerRoundTrip ==
    pc = "done" =>
        \A i \in TypeMin(ty)..TypeMax(ty) :
            TextOf(i) => /\ result.tag = "Ok"
                         /\ result.value = i
                         /\ result.parser.offset = parser.offset + Len(ToStr(i))

\* C8: a digit run whose value exceeds the range of the type gives
\* BadArgument in both parsers, not a value and not a panic.
C8_OverflowIsBadArgument ==
    pc = "done" =>
        \A i \in (TypeMax(ty) + 1)..MaxProbe :
            TextOf(i) => /\ result.tag = "Err"
                         /\ result.err.kind = "BadArgument"

(***************************************************************************)
(* Properties of the quoted-string argument (SpecStr).                     *)
(***************************************************************************)
\* position j of a quoted text is taken by a preceding unescaped backslash
RECURSIVE Escaped(_, _)
Escaped(s, j) == j > 2 /\ s[j - 1] = "\\" /\ ~Escaped(s, j - 1)

ClosingQuotes(s) == {j \in 2..Len(s) : s[j] = "\"" /\ ~Escaped(s, j)}

FirstClosingQuote(s) == CHOOSE j \in ClosingQuotes(s) : \A k \in ClosingQuotes(s) : j <= k

\* the characters of s[from..to] without the unescaped backslashes
RECURSIVE Unescaped(_, _, _)
Unescaped(s, from, to) ==
    IF from > to THEN <<>>
    ELSE (IF s[from] = "\\" /\ ~Escaped(s, from) THEN <<>> ELSE <<s[from]>>)
         \o Unescaped(s, from + 1, to)

\* C9: a text that opens with a quote and has a later unescaped quote parses,
\* in both parsers, to the characters between the quotes with each escape
\* pair contributing its second character, the cursor just past the closing
\* quote.
C9_QuotedStringValue ==
    ( /\ pc = "done"
      /\ command # <<>> /\ command[1] = "\""
      /\ ClosingQuotes(command) # {} )
    => LET close == FirstClosingQuote(command)
       IN  /\ result.tag = "Ok"
           /\ result.value = Unescaped(command, 2, close - 1)
           /\ result.parser.offset = close

(***************************************************************************)
(* Properties of the checkpoints (SpecMatch).                              *)
(***************************************************************************)
Shorter(a, b) == IF a < b THEN a ELSE b

\* C13: Literal(lit).apply returns a value for every input: Ok(len(lit)) when
\* the input starts with lit, EndOfInput when it is empty, and otherwise
\* InvalidInput of the first len(lit) characters, also for a non-empty input
\* shorter than lit; it never aborts.
C13_LiteralApplyTotal ==
    (pc = "done" /\ checkpoint.kind = "Literal") =>
        LET l == checkpoint.text
        IN  IF command = <<>> THEN result = MatchErr("EndOfInput", <<>>)
            ELSE IF Len(l) <= Len(command) /\ SubSeq(command, 1, Len(l)) = l
            THEN result = MatchOk(Len(l), <<>>)
            ELSE result = MatchErr("InvalidInput",
                                   SubSeq(command, 1, Shorter(Len(l), Len(command))))

LaterQuotes(s) == {j \in 2..Len(s) : s[j] = "\""}

\* C17: for an input that starts with a quote and holds a later quote, the
\* empty quoted string included, the String argument of the tree lineage
\* returns the text strictly between the two quotes and the index just past
\* the closing quote; it never aborts.
C17_TreeQuotedString ==
    ( /\ pc = "done" /\ checkpoint.kind = "Argument"
      /\ command # <<>> /\ command[1] = "\""
      /\ LaterQuotes(command) # {} )
    => LET close == CHOOSE j \in LaterQuotes(command) : \A k \in LaterQuotes(command) : j <= k
       IN  result = MatchOk(close, <<<<checkpoint.name, SubSeq(command, 2, close - 1)>>>>)

(***************************************************************************)
(* Properties of the cursor and of error rendering (SpecCursor).           *)
(***************************************************************************)
InBounds(p) == 0 <= p.offset /\ p.offset <= Len(p.command)

\* C14: after any sequence of lit, read_while, spacing, end, branch and the
\* built-in argument parsers, whether they succeeded or failed, the cursor
\* made by new and every branch taken from it satisfy
\* 0 <= offset <= len(source).
C14_CursorInBounds ==
    pc = "cursor" =>
        /\ InBounds(parser)
        /\ \A k \in 1..Len(branches) : InBounds(branches[k])

\* C14 witness: a signed integer parse consumed a trailing "-" and failed at
\* the very end of the text, while a branch taken earlier stayed behind
C14_Witness ==
    /\ pc = "cursor"
    /\ command # <<>> /\ command[Len(command)] = "-"
    /\ parser.offset = Len(command)
    /\ last_error = [kind |-> "BadArgument", offset |-> Len(command)]
    /\ Len(branches) >= 1
    /\ branches[1].offset < parser.offset

\* C16: rendering any error a cursor operation returned reads the snippet
\* from max(0, offset - 10) to offset + 10 inside the source text.
C16_SnippetInBounds ==
    (pc = "cursor" /\ result # NotRendered) =>
        /\ result.tag = "Rendered"
        /\ result.start = saturating_sub(last_error.offset, SnippetRadius)
        /\ result.stop = last_error.offset + SnippetRadius
        /\ result.start <= result.stop
        /\ result.stop <= Len(command)

====
